---- MODULE Spec2Model ----
(***************************************************************************)
(* The HMAC challenge-response pair server2.cpp (Verifier) / client2.cpp   *)
(* (Prover) talking over one TCP connection.                               *)
(*                                                                         *)
(* A byte is a tuple of integers:                                          *)
(*   <<v>>            a literal byte of value v (text, zero-filled buffer) *)
(*   <<1, i>>         byte i of the output of RAND_bytes                   *)
(*   <<key, data, i>> byte i of HMAC-SHA1(key, data)                       *)
(* so that HMAC-SHA1 and RAND_bytes are ideal: two tags are equal exactly  *)
(* when key and data are equal, and random bytes equal no other byte.      *)
(* A byte string (std::string, the bytes on the wire) is a sequence of     *)
(* bytes.                                                                  *)
(***************************************************************************)
EXTENDS Integers, Sequences, FiniteSets, TLC

VARIABLES
    vpc,              \* Verifier: position in main/handle_client of server2.cpp
    ppc,              \* Prover: position in main/client_interaction of client2.cpp
    vkey,             \* SHARED_SECRET of the server2 build
    pkey,             \* SHARED_SECRET of the client2 build
    hello,            \* handle_client: std::string hello
    challenge,        \* handle_client: std::string challenge
    client_digest,    \* handle_client: std::string client_digest
    expected_digest,  \* handle_client: std::string expected_digest
    response,         \* handle_client: std::string response
    pchallenge,       \* client_interaction: std::string challenge
    digest,           \* client_interaction: std::string digest
    presponse,        \* client_interaction: std::string response
    c2s_wire,         \* bytes the Prover sent, still in flight
    c2s_buf,          \* bytes delivered to the Verifier's socket, not yet read
    s2c_wire,         \* bytes the Verifier sent, still in flight
    s2c_buf,          \* bytes delivered to the Prover's socket, not yet read
    vOpen,            \* the Verifier's end of the connection is open
    pOpen,            \* the Prover's end of the connection is open
    vlog,             \* history: the Verifier's calls, in order
    plog,             \* history: the Prover's calls, in order
    vSent,            \* history: the payloads the Verifier passed to send()
    pSent,            \* history: the payloads the Prover passed to send()
    splits,           \* history: number of partial deliveries by the transport
    username,         \* server.cpp handle_client: std::string username
    password,         \* server.cpp handle_client: std::string password
    client_msg        \* client.cpp client_interaction: std::string msg

vars == << vpc, ppc, vkey, pkey, hello, challenge, client_digest, expected_digest,
           response, pchallenge, digest, presponse, c2s_wire, c2s_buf, s2c_wire,
           s2c_buf, vOpen, pOpen, vlog, plog, vSent, pSent, splits, username,
           password, client_msg >>

----------------------------------------------------------------------------
(* Bounds *)

\* Number of partial (fragmenting) deliveries the transport makes in one run.
MaxSplits == 1

\* Largest number of bytes a partial delivery hands over.
MaxFragment == 2

----------------------------------------------------------------------------
(* Program constants *)

\* generate_challenge(size_t length = 16)
ChallengeLen == 16

\* compute_hmac: unsigned int len{20}
HmacLen == 20

\* read_message: char buffer[1024]
BufSize == 1024

Lit(codes) == [i \in 1..Len(codes) |-> << codes[i] >>]

\* "pass123"
Pass123 == Lit(<<112, 97, 115, 115, 49, 50, 51>>)

\* "wrong": the secret of a Prover that was not given the Verifier's secret
Wrong == Lit(<<119, 114, 111, 110, 103>>)

\* SHARED_SECRET is compiled into each program; the two builds may have been
\* given the same secret or different ones.
Secrets == {Pass123, Wrong}

\* "hello"
Hello == Lit(<<104, 101, 108, 108, 111>>)

\* "Authentication successful. Welcome!"
SuccessMsg ==
    Lit(<<65, 117, 116, 104, 101, 110, 116, 105, 99, 97, 116, 105, 111, 110, 32,
          115, 117, 99, 99, 101, 115, 115, 102, 117, 108, 46, 32,
          87, 101, 108, 99, 111, 109, 101, 33>>)

\* "Authentication failed."
FailMsg ==
    Lit(<<65, 117, 116, 104, 101, 110, 116, 105, 99, 97, 116, 105, 111, 110, 32,
          102, 97, 105, 108, 101, 100, 46>>)

Empty == << >>

----------------------------------------------------------------------------
(* Pure functions *)

Min(a, b) == IF a < b THEN a ELSE b

\* A compute_hmac that "signs" by prepending the key to the data.
compute_hmac_leak(data, key) == key \o data

\* compute_hmac(data, key) when HMAC() returns a digest: the len = 20 bytes of
\* HMAC-SHA1 keyed by key over data.
compute_hmac(data, key) == [i \in 1..HmacLen |-> << key, data, i >>]

\* The results of RAND_bytes(buffer, length): 1 success, 0 failure,
\* -1 not supported by the current RAND method.
RandResults == {1, 0, -1}

\* generate_challenge(length) when it does not throw. The guard is
\* !RAND_bytes(...), so only rc = 0 throws; on rc = -1 the zero-initialised
\* buffer[64]{} is returned.
generate_challenge(rc, length) ==
    IF rc = 1 THEN [i \in 1..length |-> << 1, i >>]
              ELSE [i \in 1..length |-> << 0 >>]

\* generate_challenge throws std::runtime_error exactly when !rc.
generate_throws(rc) == rc = 0

\* read_message: what one read(sock, buffer, sizeof(buffer)) returns when buf
\* holds the bytes the socket has received: at most sizeof(buffer) of them.
read_message(buf) == SubSeq(buf, 1, Min(Len(buf), BufSize))

\* What one read leaves in the socket's receive buffer.
read_rest(buf) == SubSeq(buf, Min(Len(buf), BufSize) + 1, Len(buf))

\* A comparison over the candidate's length only (memcmp over candidate.size()).
digest_matches_prefix(candidate, expected) ==
    /\ Len(candidate) <= Len(expected)
    /\ candidate = SubSeq(expected, 1, Len(candidate))

\* The verifier's comparison client_digest == expected_digest (std::string
\* operator==: same length and same bytes).
digest_matches(candidate, expected) == candidate = expected

\* The number of byte pairs client_digest == expected_digest looks at:
\* std::string operator== compares the sizes and then the bytes in order
\* (char_traits::compare), stopping at the first pair that differs.
compare_steps(candidate, expected) ==
    IF Len(candidate) # Len(expected) THEN 0
    ELSE IF candidate = expected THEN Len(expected)
    ELSE CHOOSE i \in 1..Len(expected) :
            /\ candidate[i] # expected[i]
            /\ \A j \in 1..(i - 1) : candidate[j] = expected[j]

\* sub occurs in s as a contiguous run of bytes.
Contains(s, sub) ==
    \E i \in 0..(Len(s) - Len(sub)) : SubSeq(s, i + 1, i + Len(sub)) = sub

----------------------------------------------------------------------------
(* Initial state: both processes about to run, connection established *)

Init ==
    /\ vpc = "read_hello"
    /\ ppc = "send_hello"
    /\ vkey \in Secrets
    /\ pkey \in Secrets
    /\ hello = Empty
    /\ challenge = Empty
    /\ client_digest = Empty
    /\ expected_digest = Empty
    /\ response = Empty
    /\ pchallenge = Empty
    /\ digest = Empty
    /\ presponse = Empty
    /\ c2s_wire = Empty
    /\ c2s_buf = Empty
    /\ s2c_wire = Empty
    /\ s2c_buf = Empty
    /\ vOpen = TRUE
    /\ pOpen = TRUE
    /\ vlog = << >>
    /\ plog = << >>
    /\ vSent = << >>
    /\ pSent = << >>
    /\ splits = 0
    /\ username = Empty
    /\ password = Empty
    /\ client_msg = Empty

vLocals == << hello, challenge, client_digest, expected_digest, response >>
pLocals == << pchallenge, digest, presponse >>
vSide == << vpc, vLocals, vOpen, vlog, vSent >>
pSide == << ppc, pLocals, pOpen, plog, pSent >>
config == << vkey, pkey >>
\* The locals of the plaintext pair server.cpp / client.cpp.
plain == << username, password, client_msg >>

\* A blocking read on a socket returns when bytes are buffered, or, with
\* nothing buffered or in flight, when the peer's end is closed (EOF, 0).
CanRead(buf, wire, peerOpen) == buf # Empty \/ (wire = Empty /\ ~peerOpen)

----------------------------------------------------------------------------
(* Transport: a TCP stream may hand over the bytes in flight in pieces, to   *)
(* a receiving end that is still open.                                      *)

DeliverC2S ==
    /\ c2s_wire # Empty
    /\ vOpen
    /\ \E k \in 1..Len(c2s_wire) :
        /\ k < Len(c2s_wire) => (splits < MaxSplits /\ k <= MaxFragment)
        /\ c2s_buf' = c2s_buf \o SubSeq(c2s_wire, 1, k)
        /\ c2s_wire' = SubSeq(c2s_wire, k + 1, Len(c2s_wire))
        /\ splits' = IF k < Len(c2s_wire) THEN splits + 1 ELSE splits
    /\ UNCHANGED << vSide, pSide, config, plain, s2c_wire, s2c_buf >>

DeliverS2C ==
    /\ s2c_wire # Empty
    /\ pOpen
    /\ \E k \in 1..Len(s2c_wire) :
        /\ k < Len(s2c_wire) => (splits < MaxSplits /\ k <= MaxFragment)
        /\ s2c_buf' = s2c_buf \o SubSeq(s2c_wire, 1, k)
        /\ s2c_wire' = SubSeq(s2c_wire, k + 1, Len(s2c_wire))
        /\ splits' = IF k < Len(s2c_wire) THEN splits + 1 ELSE splits
    /\ UNCHANGED << vSide, pSide, config, plain, c2s_wire, c2s_buf >>

----------------------------------------------------------------------------
(* send_message: send(sock, msg.c_str(), msg.length(), 0), result ignored.  *)
(* The bytes join those in flight; when the peer's end is closed they are   *)
(* lost.                                                                    *)

send_message(wire, msg, peerOpen) == IF peerOpen THEN wire \o msg ELSE wire

\* History of one send_message call: "lost" marks a send whose peer had gone.
sent_events(peerOpen) == IF peerOpen THEN << "send" >> ELSE << "send", "lost" >>

----------------------------------------------------------------------------
(* Verifier: server2.cpp main / handle_client *)

\* "Hello. Send your greeting.", the greeting of the plaintext server.cpp
Greeting ==
    Lit(<<72, 101, 108, 108, 111, 46, 32, 83, 101, 110, 100, 32, 121, 111, 117,
          114, 32, 103, 114, 101, 101, 116, 105, 110, 103, 46>>)

\* A handle_client that opens with a greeting of its own, as server.cpp does.
VReadHello_greets ==
    /\ vpc = "read_hello"
    /\ CanRead(c2s_buf, c2s_wire, pOpen)
    /\ s2c_wire' = send_message(s2c_wire, Greeting, pOpen)
    /\ vSent' = Append(vSent, Greeting)
    /\ hello' = read_message(c2s_buf)
    /\ c2s_buf' = read_rest(c2s_buf)
    /\ vlog' = vlog \o << "send", "read" >>
    /\ vpc' = "generate"
    /\ UNCHANGED << challenge, client_digest, expected_digest, response, vOpen,
                    pSide, config, plain, c2s_wire, s2c_buf, splits >>

\* line 133: std::string hello{read_message(client_sock)}
VReadHello ==
    /\ vpc = "read_hello"
    /\ CanRead(c2s_buf, c2s_wire, pOpen)
    /\ hello' = read_message(c2s_buf)
    /\ c2s_buf' = read_rest(c2s_buf)
    /\ vlog' = Append(vlog, "read")
    /\ vpc' = "generate"
    /\ UNCHANGED << challenge, client_digest, expected_digest, response, vOpen,
                    vSent, pSide, config, plain, c2s_wire, s2c_wire, s2c_buf, splits >>

\* line 137: std::string challenge{generate_challenge()}
VGenerate ==
    /\ vpc = "generate"
    /\ \E rc \in RandResults :
        IF generate_throws(rc)
        THEN /\ vpc' = "caught"
             /\ vlog' = vlog \o << "generate", "throw" >>
             /\ UNCHANGED challenge
        ELSE /\ vpc' = "send_challenge"
             /\ vlog' = Append(vlog, "generate")
             /\ challenge' = generate_challenge(rc, ChallengeLen)
    /\ UNCHANGED << hello, client_digest, expected_digest, response, vOpen, vSent,
                    pSide, config, plain, c2s_wire, c2s_buf, s2c_wire, s2c_buf, splits >>

\* line 138: send_message(client_sock, challenge)
VSendChallenge ==
    /\ vpc = "send_challenge"
    /\ s2c_wire' = send_message(s2c_wire, challenge, pOpen)
    /\ vSent' = Append(vSent, challenge)
    /\ vlog' = vlog \o sent_events(pOpen)
    /\ vpc' = "read_digest"
    /\ UNCHANGED << vLocals, vOpen, pSide, config, plain,
                    c2s_wire, c2s_buf, s2c_buf,
                    splits >>

\* line 141: std::string client_digest{read_message(client_sock)}
VReadDigest ==
    /\ vpc = "read_digest"
    /\ CanRead(c2s_buf, c2s_wire, pOpen)
    /\ client_digest' = read_message(c2s_buf)
    /\ c2s_buf' = read_rest(c2s_buf)
    /\ vlog' = Append(vlog, "read")
    /\ vpc' = "compute_hmac"
    /\ UNCHANGED << hello, challenge, expected_digest, response, vOpen, vSent,
                    pSide, config, plain, c2s_wire, s2c_wire, s2c_buf, splits >>

\* line 144: std::string expected_digest{compute_hmac(challenge, SHARED_SECRET)};
\* compute_hmac throws when HMAC() returns a null pointer (lines 56-59).
VComputeHmac ==
    /\ vpc = "compute_hmac"
    /\ \E ok \in BOOLEAN :
        IF ok
        THEN /\ expected_digest' = compute_hmac(challenge, vkey)
             /\ vlog' = Append(vlog, "hmac")
             /\ vpc' = "compare"
        ELSE /\ vpc' = "caught"
             /\ vlog' = vlog \o << "hmac", "throw" >>
             /\ UNCHANGED expected_digest
    /\ UNCHANGED << hello, challenge, client_digest, response, vOpen, vSent,
                    pSide, config, plain, c2s_wire, c2s_buf, s2c_wire, s2c_buf, splits >>

\* A comparison with its two branches exchanged.
VCompare_inverted ==
    /\ vpc = "compare"
    /\ response' = IF digest_matches(client_digest, expected_digest)
                   THEN FailMsg ELSE SuccessMsg
    /\ vlog' = Append(vlog, "verify")
    /\ vpc' = "send_response"
    /\ UNCHANGED << hello, challenge, client_digest, expected_digest, vOpen, vSent,
                    pSide, config, plain, c2s_wire, c2s_buf, s2c_wire, s2c_buf, splits >>

\* A handle_client that, on a mismatch, issues a new challenge and tries again.
VCompare_retry ==
    /\ vpc = "compare"
    /\ response' = IF digest_matches(client_digest, expected_digest)
                   THEN SuccessMsg ELSE FailMsg
    /\ vlog' = Append(vlog, "verify")
    /\ vpc' = IF digest_matches(client_digest, expected_digest)
              THEN "send_response" ELSE "generate"
    /\ UNCHANGED << hello, challenge, client_digest, expected_digest, vOpen, vSent,
                    pSide, config, plain, c2s_wire, c2s_buf, s2c_wire, s2c_buf, splits >>

\* lines 147-155: the comparison and the choice of the response
VCompare ==
    /\ vpc = "compare"
    /\ response' = IF digest_matches(client_digest, expected_digest)
                   THEN SuccessMsg ELSE FailMsg
    /\ vlog' = Append(vlog, "verify")
    /\ vpc' = "send_response"
    /\ UNCHANGED << hello, challenge, client_digest, expected_digest, vOpen, vSent,
                    pSide, config, plain, c2s_wire, c2s_buf, s2c_wire, s2c_buf, splits >>

\* A handle_client that reports success only and just closes on a mismatch.
VSendResponse_onlySuccess ==
    /\ vpc = "send_response"
    /\ IF response = SuccessMsg
       THEN /\ s2c_wire' = send_message(s2c_wire, response, pOpen)
            /\ vSent' = Append(vSent, response)
            /\ vlog' = vlog \o sent_events(pOpen)
       ELSE UNCHANGED << s2c_wire, vSent, vlog >>
    /\ vpc' = "close"
    /\ UNCHANGED << vLocals, vOpen, pSide, config, plain,
                    c2s_wire, c2s_buf, s2c_buf,
                    splits >>

\* line 158: send_message(client_sock, response)
VSendResponse ==
    /\ vpc = "send_response"
    /\ s2c_wire' = send_message(s2c_wire, response, pOpen)
    /\ vSent' = Append(vSent, response)
    /\ vlog' = vlog \o sent_events(pOpen)
    /\ vpc' = "close"
    /\ UNCHANGED << vLocals, vOpen, pSide, config, plain,
                    c2s_wire, c2s_buf, s2c_buf,
                    splits >>

\* line 161: close(client_sock); handle_client returns
VClose ==
    /\ vpc = "close"
    /\ vOpen' = FALSE
    /\ vlog' = Append(vlog, "close")
    /\ vpc' = "returned"
    /\ UNCHANGED << vLocals, vSent, pSide, config, plain,
                    c2s_wire, c2s_buf, s2c_wire,
                    s2c_buf, splits >>

\* lines 186-194: main closes the listening socket and returns 0
VMainReturn ==
    /\ vpc = "returned"
    /\ vpc' = "done"
    /\ vlog' = Append(vlog, "exit")
    /\ UNCHANGED << vLocals, vOpen, vSent, pSide, config, plain,
                    c2s_wire, c2s_buf,
                    s2c_wire, s2c_buf, splits >>

\* lines 189-194: the exception reaches main's catch, which prints and returns 0
\* without a close(client_sock); the descriptor goes when the process exits.
VCatch ==
    /\ vpc = "caught"
    /\ vpc' = "done"
    /\ vOpen' = FALSE
    /\ vlog' = Append(vlog, "exit")
    /\ UNCHANGED << vLocals, vSent, pSide, config, plain,
                    c2s_wire, c2s_buf, s2c_wire,
                    s2c_buf, splits >>

----------------------------------------------------------------------------
(* Prover: client2.cpp main / client_interaction *)

\* A client_interaction that waits for a greeting before its "hello", as the
\* plaintext client.cpp does.
PSendHello_readsFirst ==
    /\ ppc = "send_hello"
    /\ CanRead(s2c_buf, s2c_wire, vOpen)
    /\ s2c_buf' = read_rest(s2c_buf)
    /\ c2s_wire' = send_message(c2s_wire, Hello, vOpen)
    /\ pSent' = Append(pSent, Hello)
    /\ plog' = plog \o << "read" >> \o sent_events(vOpen)
    /\ ppc' = "read_challenge"
    /\ UNCHANGED << pLocals, pOpen, vSide, config, plain, c2s_buf, s2c_wire, splits >>

\* line 98: send_message(sock, "hello")
PSendHello ==
    /\ ppc = "send_hello"
    /\ c2s_wire' = send_message(c2s_wire, Hello, vOpen)
    /\ pSent' = Append(pSent, Hello)
    /\ plog' = plog \o sent_events(vOpen)
    /\ ppc' = "read_challenge"
    /\ UNCHANGED << pLocals, pOpen, vSide, config, plain,
                    c2s_buf, s2c_wire, s2c_buf,
                    splits >>

\* line 101: std::string challenge{read_message(sock)}
PReadChallenge ==
    /\ ppc = "read_challenge"
    /\ CanRead(s2c_buf, s2c_wire, vOpen)
    /\ pchallenge' = read_message(s2c_buf)
    /\ s2c_buf' = read_rest(s2c_buf)
    /\ plog' = Append(plog, "read")
    /\ ppc' = "compute_hmac"
    /\ UNCHANGED << digest, presponse, pOpen, pSent, vSide, config, plain,
                    c2s_wire,
                    c2s_buf, s2c_wire, splits >>

\* line 105: std::string digest{compute_hmac(challenge, SHARED_SECRET)};
\* compute_hmac throws when HMAC() returns a null pointer (lines 29-32).
PComputeHmac ==
    /\ ppc = "compute_hmac"
    /\ \E ok \in BOOLEAN :
        IF ok
        THEN /\ digest' = compute_hmac(pchallenge, pkey)
             /\ plog' = Append(plog, "hmac")
             /\ ppc' = "send_digest"
        ELSE /\ ppc' = "caught"
             /\ plog' = plog \o << "hmac", "throw" >>
             /\ UNCHANGED digest
    /\ UNCHANGED << pchallenge, presponse, pOpen, pSent, vSide, config, plain,
                    c2s_wire,
                    c2s_buf, s2c_wire, s2c_buf, splits >>

\* line 108: send_message(sock, digest)
PSendDigest ==
    /\ ppc = "send_digest"
    /\ c2s_wire' = send_message(c2s_wire, digest, vOpen)
    /\ pSent' = Append(pSent, digest)
    /\ plog' = plog \o sent_events(vOpen)
    /\ ppc' = "read_response"
    /\ UNCHANGED << pLocals, pOpen, vSide, config, plain,
                    c2s_buf, s2c_wire, s2c_buf,
                    splits >>

\* lines 111-112: std::string response{read_message(sock)}, printed to std::cout
PReadResponse ==
    /\ ppc = "read_response"
    /\ CanRead(s2c_buf, s2c_wire, vOpen)
    /\ presponse' = read_message(s2c_buf)
    /\ s2c_buf' = read_rest(s2c_buf)
    /\ plog' = Append(plog, "read")
    /\ ppc' = "close"
    /\ UNCHANGED << pchallenge, digest, pOpen, pSent, vSide, config, plain,
                    c2s_wire,
                    c2s_buf, s2c_wire, splits >>

\* lines 127-134: close(sock); return 0
PClose ==
    /\ ppc = "close"
    /\ pOpen' = FALSE
    /\ plog' = plog \o << "close", "exit" >>
    /\ ppc' = "done"
    /\ UNCHANGED << pLocals, pSent, vSide, config, plain,
                    c2s_wire, c2s_buf, s2c_wire,
                    s2c_buf, splits >>

\* lines 129-134: the exception reaches main's catch, which prints and returns 0
\* without a close(sock); the descriptor goes when the process exits.
PCatch ==
    /\ ppc = "caught"
    /\ ppc' = "done"
    /\ pOpen' = FALSE
    /\ plog' = Append(plog, "exit")
    /\ UNCHANGED << pLocals, pSent, vSide, config, plain,
                    c2s_wire, c2s_buf, s2c_wire,
                    s2c_buf, splits >>

----------------------------------------------------------------------------

Next ==
    \/ VReadHello \/ VGenerate \/ VSendChallenge \/ VReadDigest \/ VComputeHmac
    \/ VCompare \/ VSendResponse \/ VClose \/ VMainReturn \/ VCatch
    \/ PSendHello \/ PReadChallenge \/ PComputeHmac \/ PSendDigest
    \/ PReadResponse \/ PClose \/ PCatch
    \/ DeliverC2S \/ DeliverS2C

Spec == Init /\ [][Next]_vars

\* Both programs are running processes and TCP delivers what was sent: every
\* step that stays possible is eventually taken.
FairSpec == Spec /\ WF_vars(Next)

\* The Verifier's own steps.
VerifierNext ==
    \/ VReadHello \/ VGenerate \/ VSendChallenge \/ VReadDigest \/ VComputeHmac
    \/ VCompare \/ VSendResponse \/ VClose \/ VMainReturn \/ VCatch

\* The Verifier runs and TCP delivers, but nothing makes the peer take its next
\* step: it may stay connected and silent for ever.
StallSpec == Spec /\ WF_vars(VerifierNext) /\ WF_vars(DeliverC2S \/ DeliverS2C)

----------------------------------------------------------------------------
(* server2 with any TCP client as its peer. accept() takes whoever          *)
(* connects: the peer sends a first message of its choice, then, once the   *)
(* Verifier has sent its challenge, a candidate tag of its choice, and may  *)
(* close at any point. What the Verifier sends it is not followed further.  *)

\* A message one byte longer than read_message's buffer.
Oversized == [i \in 1..(BufSize + 1) |-> << 120 >>]

PeerGreetings == {Hello, Oversized}

\* tag with the byte at position p replaced.
Altered(tag, p) == [tag EXCEPT ![p] = << 0 >>]

\* The tags the peer tries: the right one, and the right one wrong in one place.
PeerTags(expected) == {expected} \cup {Altered(expected, p) : p \in 1..Len(expected)}

PeerInit ==
    /\ vpc = "read_hello"
    /\ ppc = "peer_greet"
    /\ vkey \in Secrets
    /\ pkey = vkey
    /\ hello = Empty
    /\ challenge = Empty
    /\ client_digest = Empty
    /\ expected_digest = Empty
    /\ response = Empty
    /\ pchallenge = Empty
    /\ digest = Empty
    /\ presponse = Empty
    /\ c2s_wire = Empty
    /\ c2s_buf = Empty
    /\ s2c_wire = Empty
    /\ s2c_buf = Empty
    /\ vOpen = TRUE
    /\ pOpen = TRUE
    /\ vlog = << >>
    /\ plog = << >>
    /\ vSent = << >>
    /\ pSent = << >>
    /\ splits = 0
    /\ username = Empty
    /\ password = Empty
    /\ client_msg = Empty

PeerGreet ==
    /\ ppc = "peer_greet"
    /\ \E m \in PeerGreetings :
        /\ c2s_wire' = send_message(c2s_wire, m, vOpen)
        /\ pSent' = Append(pSent, m)
    /\ plog' = plog \o sent_events(vOpen)
    /\ ppc' = "peer_tag"
    /\ UNCHANGED << pLocals, pOpen, vSide, config, plain,
                    c2s_buf, s2c_wire, s2c_buf,
                    splits >>

PeerTag ==
    /\ ppc = "peer_tag"
    /\ Len(vSent) >= 1
    /\ \E m \in PeerTags(compute_hmac(challenge, vkey)) :
        /\ c2s_wire' = send_message(c2s_wire, m, vOpen)
        /\ pSent' = Append(pSent, m)
    /\ plog' = plog \o sent_events(vOpen)
    /\ ppc' = "peer_end"
    /\ UNCHANGED << pLocals, pOpen, vSide, config, plain,
                    c2s_buf, s2c_wire, s2c_buf,
                    splits >>

PeerClose ==
    /\ ppc \in {"peer_greet", "peer_tag", "peer_end"}
    /\ pOpen' = FALSE
    /\ plog' = plog \o << "close", "exit" >>
    /\ ppc' = "done"
    /\ UNCHANGED << pLocals, pSent, vSide, config, plain,
                    c2s_wire, c2s_buf, s2c_wire,
                    s2c_buf, splits >>

PeerNext == VerifierNext \/ DeliverC2S \/ PeerGreet \/ PeerTag \/ PeerClose

PeerSpec == PeerInit /\ [][PeerNext]_vars

----------------------------------------------------------------------------
(* The plaintext pair: server.cpp handle_client / client.cpp                *)
(* client_interaction, over the same kind of connection. vpc, ppc, hello,   *)
(* response, the logs and the transport are used as for the other pair.     *)

\* "admin"
Admin == Lit(<<97, 100, 109, 105, 110>>)

\* "root", a user name that is not the accepted one
Root == Lit(<<114, 111, 111, 116>>)

\* "Enter username:"
AskUsername ==
    Lit(<<69, 110, 116, 101, 114, 32, 117, 115, 101, 114, 110, 97, 109, 101, 58>>)

\* "Enter password:"
AskPassword ==
    Lit(<<69, 110, 116, 101, 114, 32, 112, 97, 115, 115, 119, 111, 114, 100, 58>>)

\* "Authentication successful.\n secret_data_from_server..."
PlainSuccessMsg ==
    Lit(<<65, 117, 116, 104, 101, 110, 116, 105, 99, 97, 116, 105, 111, 110, 32,
          115, 117, 99, 99, 101, 115, 115, 102, 117, 108, 46, 10, 32,
          115, 101, 99, 114, 101, 116, 95, 100, 97, 116, 97, 95, 102, 114, 111,
          109, 95, 115, 101, 114, 118, 101, 114, 46, 46, 46>>)

\* The lines std::getline may read from std::cin; the empty line included.
TypedLines == {Admin, Root, Pass123, Empty}

\* A check that accepts when either credential is right.
credentials_ok_either(u, p) == u = Admin \/ p = Pass123

\* server.cpp line 82: username == "admin" && password == "pass123"
credentials_ok(u, p) == u = Admin /\ p = Pass123

PlainInit ==
    /\ vpc = "s_greet"
    /\ ppc = "c_read_greeting"
    /\ vkey = Pass123
    /\ pkey = Pass123
    /\ hello = Empty
    /\ challenge = Empty
    /\ client_digest = Empty
    /\ expected_digest = Empty
    /\ response = Empty
    /\ pchallenge = Empty
    /\ digest = Empty
    /\ presponse = Empty
    /\ c2s_wire = Empty
    /\ c2s_buf = Empty
    /\ s2c_wire = Empty
    /\ s2c_buf = Empty
    /\ vOpen = TRUE
    /\ pOpen = TRUE
    /\ vlog = << >>
    /\ plog = << >>
    /\ vSent = << >>
    /\ pSent = << >>
    /\ splits = 0
    /\ username = Empty
    /\ password = Empty
    /\ client_msg = Empty

hmacLocals == << challenge, client_digest, expected_digest, pLocals >>

\* The server sends text and moves on: lines 66, 72 and 76.
ServerSends(from, text, to) ==
    /\ vpc = from
    /\ s2c_wire' = send_message(s2c_wire, text, pOpen)
    /\ vSent' = Append(vSent, text)
    /\ vlog' = vlog \o sent_events(pOpen)
    /\ vpc' = to
    /\ UNCHANGED << hello, response, username, password, client_msg, hmacLocals, vOpen,
                    ppc, pOpen, plog, pSent, config, c2s_wire, c2s_buf, s2c_buf,
                    splits >>

\* line 66: send_message(client_sock, "Hello. Send your greeting.")
SGreet == ServerSends("s_greet", Greeting, "s_read_hello")

\* lines 68-69: std::string hello{read_message(client_sock)}
SReadHello ==
    /\ vpc = "s_read_hello"
    /\ CanRead(c2s_buf, c2s_wire, pOpen)
    /\ hello' = read_message(c2s_buf)
    /\ c2s_buf' = read_rest(c2s_buf)
    /\ vlog' = Append(vlog, "read")
    /\ vpc' = "s_ask_user"
    /\ UNCHANGED << response, username, password, client_msg, hmacLocals, vOpen, vSent,
                    ppc, pOpen, plog, pSent, config, c2s_wire, s2c_wire, s2c_buf,
                    splits >>

\* line 72: send_message(client_sock, "Enter username:")
SAskUser == ServerSends("s_ask_user", AskUsername, "s_read_user")

\* line 73: std::string username{read_message(client_sock)}
SReadUser ==
    /\ vpc = "s_read_user"
    /\ CanRead(c2s_buf, c2s_wire, pOpen)
    /\ username' = read_message(c2s_buf)
    /\ c2s_buf' = read_rest(c2s_buf)
    /\ vlog' = Append(vlog, "read")
    /\ vpc' = "s_ask_pass"
    /\ UNCHANGED << hello, response, password, client_msg, hmacLocals, vOpen, vSent,
                    ppc, pOpen, plog, pSent, config, c2s_wire, s2c_wire, s2c_buf,
                    splits >>

\* line 76: send_message(client_sock, "Enter password:")
SAskPass == ServerSends("s_ask_pass", AskPassword, "s_read_pass")

\* line 77: std::string password{read_message(client_sock)}
SReadPass ==
    /\ vpc = "s_read_pass"
    /\ CanRead(c2s_buf, c2s_wire, pOpen)
    /\ password' = read_message(c2s_buf)
    /\ c2s_buf' = read_rest(c2s_buf)
    /\ vlog' = Append(vlog, "read")
    /\ vpc' = "s_verify"
    /\ UNCHANGED << hello, response, username, client_msg, hmacLocals, vOpen, vSent,
                    ppc, pOpen, plog, pSent, config, c2s_wire, s2c_wire, s2c_buf,
                    splits >>

\* lines 80-91: the check, and in either branch the response and its send
SVerify ==
    /\ vpc = "s_verify"
    /\ response' = IF credentials_ok(username, password)
                   THEN PlainSuccessMsg ELSE FailMsg
    /\ s2c_wire' = send_message(s2c_wire, response', pOpen)
    /\ vSent' = Append(vSent, response')
    /\ vlog' = vlog \o << "verify" >> \o sent_events(pOpen)
    /\ vpc' = "s_close"
    /\ UNCHANGED << hello, username, password, client_msg, hmacLocals, vOpen,
                    ppc, pOpen, plog, pSent, config, c2s_wire, c2s_buf, s2c_buf,
                    splits >>

\* line 94: close(client_sock); handle_client returns
SClose ==
    /\ vpc = "s_close"
    /\ vOpen' = FALSE
    /\ vlog' = Append(vlog, "close")
    /\ vpc' = "s_returned"
    /\ UNCHANGED << hello, response, username, password, client_msg, hmacLocals, vSent,
                    ppc, pOpen, plog, pSent, config, c2s_wire, c2s_buf, s2c_wire,
                    s2c_buf, splits >>

\* lines 117-125: main closes the listening socket and returns 0
SMainReturn ==
    /\ vpc = "s_returned"
    /\ vpc' = "done"
    /\ vlog' = Append(vlog, "exit")
    /\ UNCHANGED << hello, response, username, password, client_msg, hmacLocals, vOpen,
                    vSent, ppc, pOpen, plog, pSent, config, c2s_wire, c2s_buf,
                    s2c_wire, s2c_buf, splits >>

\* The client reads into msg and prints it: lines 104-105, 110-111, 118-119
\* and 126-127.
ClientReads(from, to) ==
    /\ ppc = from
    /\ CanRead(s2c_buf, s2c_wire, vOpen)
    /\ client_msg' = read_message(s2c_buf)
    /\ s2c_buf' = read_rest(s2c_buf)
    /\ plog' = Append(plog, "read")
    /\ ppc' = to
    /\ UNCHANGED << hello, response, username, password, hmacLocals, pOpen, pSent,
                    vpc, vOpen, vlog, vSent, config, c2s_wire, c2s_buf, s2c_wire,
                    splits >>

\* The client sends text: lines 107, 115 and 123. A text of no bytes puts
\* nothing on the wire.
ClientSends(from, text, to) ==
    /\ ppc = from
    /\ c2s_wire' = send_message(c2s_wire, text, vOpen)
    /\ pSent' = Append(pSent, text)
    /\ plog' = plog \o sent_events(vOpen)
    /\ ppc' = to
    /\ UNCHANGED << hello, response, username, password, client_msg, hmacLocals, pOpen,
                    vpc, vOpen, vlog, vSent, config, c2s_buf, s2c_wire, s2c_buf,
                    splits >>

\* lines 104-105
CReadGreeting == ClientReads("c_read_greeting", "c_send_hello")

\* line 107: send_message(sock, "hello")
CSendHello == ClientSends("c_send_hello", Hello, "c_read_prompt1")

\* lines 110-111
CReadPrompt1 == ClientReads("c_read_prompt1", "c_send_username")

\* lines 113-115: std::getline(std::cin, username); send_message(sock, username)
CSendUsername ==
    \E line \in TypedLines : ClientSends("c_send_username", line, "c_read_prompt2")

\* lines 118-119
CReadPrompt2 == ClientReads("c_read_prompt2", "c_send_password")

\* lines 121-123: std::getline(std::cin, password); send_message(sock, password)
CSendPassword ==
    \E line \in TypedLines : ClientSends("c_send_password", line, "c_read_result")

\* lines 126-127
CReadResult == ClientReads("c_read_result", "c_close")

\* lines 137-144: close(sock); return 0
CClose ==
    /\ ppc = "c_close"
    /\ pOpen' = FALSE
    /\ plog' = plog \o << "close", "exit" >>
    /\ ppc' = "done"
    /\ UNCHANGED << hello, response, username, password, client_msg, hmacLocals, pSent,
                    vpc, vOpen, vlog, vSent, config, c2s_wire, c2s_buf, s2c_wire,
                    s2c_buf, splits >>

PlainNext ==
    \/ SGreet \/ SReadHello \/ SAskUser \/ SReadUser \/ SAskPass \/ SReadPass
    \/ SVerify \/ SClose \/ SMainReturn
    \/ CReadGreeting \/ CSendHello \/ CReadPrompt1 \/ CSendUsername
    \/ CReadPrompt2 \/ CSendPassword \/ CReadResult \/ CClose
    \/ DeliverC2S \/ DeliverS2C

PlainSpec == PlainInit /\ [][PlainNext]_vars

----------------------------------------------------------------------------
(* Observations on a run *)

Has(log, e) == \E i \in DOMAIN log : log[i] = e

Count(log, e) == Cardinality({i \in DOMAIN log : log[i] = e})

\* Both processes have exited.
RunEnded == vpc = "done" /\ ppc = "done"

\* The transport has handed over every message in one piece so far.
DeliveredWhole == splits = 0

\* An end of the connection went away without the Session's close(): the
\* process left through main's catch before the handshake was over.
ClosedEarly ==
    \/ ~vOpen /\ ~Has(vlog, "close")
    \/ ~pOpen /\ ~Has(plog, "close")

\* The Verifier's Session outcome.
Verdict ==
    IF Has(vlog, "throw") THEN "Error"
    ELSE IF ~Has(vlog, "verify") THEN "none"
    ELSE IF response = SuccessMsg THEN "Authenticated"
    ELSE "Rejected"

----------------------------------------------------------------------------
(* C1: with the same secret on both sides, every message delivered whole    *)
(* and no end of the connection closed early, every run ends, and it ends   *)
(* with the Verifier having decided Authenticated and the Prover having     *)
(* received and printed the Authenticated verdict message.                  *)
C1_SuccessScenario ==
    <>(/\ RunEnded
       /\ (vkey = pkey /\ DeliveredWhole /\ ~ClosedEarly)
            => (Verdict = "Authenticated" /\ presponse = SuccessMsg))

\* A run of the success scenario has ended.
C1_Witness ==
    /\ RunEnded /\ vkey = pkey /\ DeliveredWhole /\ ~ClosedEarly
    /\ Verdict = "Authenticated" /\ presponse = SuccessMsg

----------------------------------------------------------------------------
(* C2: when the Prover's secret differs from the Verifier's, the Verifier   *)
(* decides Rejected, sends exactly one verdict message, the Rejected one,   *)
(* closes, and the Prover observes Rejected; one challenge, one             *)
(* verification. Stated for the runs in which no end was closed early.      *)
C2_FailureScenario ==
    (RunEnded /\ vkey # pkey /\ ~ClosedEarly)
        => /\ Verdict = "Rejected"
           /\ Len(vSent) = 2 /\ vSent[2] = FailMsg
           /\ vlog[Len(vlog) - 1] = "close"
           /\ presponse = FailMsg
           /\ Count(vlog, "generate") = 1 /\ Count(vlog, "verify") = 1

\* What does hold of the failure scenario when every message arrives whole.
C2_WholeDelivery == DeliveredWhole => C2_FailureScenario

----------------------------------------------------------------------------
(* C3: once the Verifier has compared, it has chosen Authenticated exactly  *)
(* when the received tag client_digest equals compute_hmac(challenge,       *)
(* secret), and Rejected for every other tag, the empty one included.       *)
C3_VerifierDecision ==
    Has(vlog, "verify")
        => /\ Verdict = "Authenticated" <=> client_digest = compute_hmac(challenge, vkey)
           /\ Verdict = "Rejected" <=> client_digest # compute_hmac(challenge, vkey)
           /\ response = (IF Verdict = "Authenticated" THEN SuccessMsg ELSE FailMsg)

\* The Verifier has compared an empty tag (the peer had gone) and rejected it.
C3_Witness ==
    /\ Has(vlog, "verify")
    /\ client_digest = Empty
    /\ Verdict = "Rejected"

----------------------------------------------------------------------------
(* C4: each receive that returns bytes returns exactly the message of the   *)
(* matching send: the Verifier's reads return the Prover's first and second *)
(* message, the Prover's reads the Verifier's first and second; never a     *)
(* proper prefix.                                                           *)
C4_FramingRoundTrip ==
    /\ (Count(vlog, "read") >= 1 /\ hello # Empty) => hello = pSent[1]
    /\ (Count(vlog, "read") >= 2 /\ client_digest # Empty)
            => (Len(pSent) >= 2 /\ client_digest = pSent[2])
    /\ (Count(plog, "read") >= 1 /\ pchallenge # Empty) => pchallenge = vSent[1]
    /\ (Count(plog, "read") >= 2 /\ presponse # Empty)
            => (Len(vSent) >= 2 /\ presponse = vSent[2])

\* The round trip does hold while the transport has split nothing.
C4_WholeDelivery == DeliveredWhole => C4_FramingRoundTrip

----------------------------------------------------------------------------
(* C5: if the peer's end closed while the Verifier was waiting for a        *)
(* message (a read of the Verifier returned end of file), the Verifier      *)
(* reaches neither Authenticated nor Rejected, ends in Error and its end of *)
(* the connection is closed.                                                *)
VerifierSawClosure ==
    \/ Count(vlog, "read") >= 1 /\ hello = Empty
    \/ Count(vlog, "read") >= 2 /\ client_digest = Empty

C5_VerifierOnClosure ==
    VerifierSawClosure
        => /\ Verdict \notin {"Authenticated", "Rejected"}
           /\ vpc = "done" => (Verdict = "Error" /\ ~vOpen)

----------------------------------------------------------------------------
(* C6: on every exit path of either role, close() has been called on the    *)
(* connection exactly once when the process is done, and never twice.       *)
C6_ReleaseExactlyOnce ==
    /\ Count(vlog, "close") <= 1
    /\ Count(plog, "close") <= 1
    /\ vpc = "done" => Count(vlog, "close") = 1
    /\ ppc = "done" => Count(plog, "close") = 1

----------------------------------------------------------------------------
(* C7: no payload either role passes to send() contains either side's       *)
(* SHARED_SECRET; the Prover sends only "hello" and a MAC tag, the Verifier *)
(* only its challenge and a verdict text.                                   *)
C7_SecretOffWire ==
    /\ \A i \in DOMAIN pSent :
        /\ ~Contains(pSent[i], pkey) /\ ~Contains(pSent[i], vkey)
        /\ pSent[i] = Hello \/ pSent[i] = compute_hmac(pchallenge, pkey)
    /\ \A i \in DOMAIN vSent :
        /\ ~Contains(vSent[i], pkey) /\ ~Contains(vSent[i], vkey)
        /\ vSent[i] \in {challenge, SuccessMsg, FailMsg}

\* Both sides have sent everything they send, the tag included.
C7_Witness ==
    /\ Len(pSent) = 2 /\ pSent[2] = compute_hmac(pchallenge, pkey)
    /\ Len(vSent) = 2

----------------------------------------------------------------------------
(* C8: in a Verifier Session generate_challenge is called at most once, and *)
(* exactly once before anything is sent; at most one comparison is made;    *)
(* after the comparison there is no further generate, read or comparison.   *)
C8_OneChallengeOneAttempt ==
    /\ Count(vlog, "generate") <= 1
    /\ Count(vlog, "verify") <= 1
    /\ \A i \in DOMAIN vlog :
        vlog[i] = "send" =>
            \E j \in 1..(i - 1) : vlog[j] = "generate"
    /\ \A i \in DOMAIN vlog :
        vlog[i] = "verify" =>
            /\ Count(vlog, "generate") = 1
            /\ \A j \in (i + 1)..Len(vlog) :
                vlog[j] \notin {"generate", "read", "verify", "hmac"}
    /\ vpc = "done" => Count(vlog, "generate") = 1

\* A Session that went through its one comparison and ended.
C8_Witness ==
    /\ vpc = "done"
    /\ Count(vlog, "verify") = 1
    /\ Count(vlog, "generate") = 1

----------------------------------------------------------------------------
(* C9: whenever the Prover's last read returned bytes, which it prints as   *)
(* the server's verdict, the Verifier has decided and those bytes are the   *)
(* verdict message the Verifier chose.                                      *)
C9_VerdictAgreement ==
    (Count(plog, "read") = 2 /\ presponse # Empty)
        => (Has(vlog, "verify") /\ presponse = response)

\* The Prover never prints the Authenticated text unless the Verifier
\* decided Authenticated.
C9_NoFalseAuthenticated ==
    (Count(plog, "read") = 2 /\ presponse = SuccessMsg) => Verdict = "Authenticated"

----------------------------------------------------------------------------
(* C10, as claimed: before the Verifier generates its challenge it has sent *)
(* a greeting and then received a message.                                  *)
C10_GreetingFirst ==
    \A g \in DOMAIN vlog :
        vlog[g] = "generate" =>
            \E i, j \in 1..(g - 1) : i < j /\ vlog[i] = "send" /\ vlog[j] = "read"

(* C10, amended: the Verifier sends no greeting of its own. Its first call  *)
(* is one receive; only after that receive has returned does it generate    *)
(* the challenge, and the challenge is the first message it sends.          *)
C10_ReceiveThenChallenge ==
    /\ vlog # << >> => vlog[1] = "read"
    /\ \A g \in DOMAIN vlog : vlog[g] = "generate" => g = 2
    /\ Len(vSent) >= 1 => (vSent[1] = challenge /\ vlog[3] = "send")

\* The challenge has been sent.
C10_Witness ==
    /\ Len(vSent) >= 1
    /\ vSent[1] = challenge
    /\ Len(challenge) = ChallengeLen

----------------------------------------------------------------------------
(* C11: once a send_message call was made to a peer whose end had closed    *)
(* (the send cannot have delivered its bytes), the Session performs no      *)
(* later protocol step: no read, MAC computation, comparison or send.       *)
ProtocolSteps == {"read", "generate", "hmac", "verify", "send"}

C11_SendFailureStops ==
    /\ \A i \in DOMAIN vlog :
        vlog[i] = "lost" => \A j \in (i + 1)..Len(vlog) : vlog[j] \notin ProtocolSteps
    /\ \A i \in DOMAIN plog :
        plog[i] = "lost" => \A j \in (i + 1)..Len(plog) : plog[j] \notin ProtocolSteps

----------------------------------------------------------------------------
(* C12: the Verifier never holds or sends a challenge made of the bytes of  *)
(* the buffer RAND_bytes did not fill: every challenge it has is the output *)
(* of a successful RAND_bytes.                                              *)
C12_NoUnfilledChallenge ==
    /\ challenge # Empty => challenge = generate_challenge(1, ChallengeLen)
    /\ \A i \in DOMAIN vSent :
        vSent[i] # generate_challenge(-1, ChallengeLen)

----------------------------------------------------------------------------
(* C13: a Verifier waiting in a receive always gets out of it, also when    *)
(* the peer neither sends nor closes.                                       *)
C13_NoReceiveForEver ==
    /\ (vpc = "read_hello") ~> (vpc # "read_hello")
    /\ (vpc = "read_digest") ~> (vpc # "read_digest")

----------------------------------------------------------------------------
(* C16: if the Prover's read for the challenge met the end of the stream,   *)
(* the Prover computes and sends no MAC; if its read for the verdict met    *)
(* the end of the stream, it leaves through the error path.                 *)
C16_ProverOnClosure ==
    /\ (Count(plog, "read") >= 1 /\ pchallenge = Empty)
            => (~Has(plog, "hmac") /\ Len(pSent) <= 1)
    /\ (Count(plog, "read") = 2 /\ presponse = Empty /\ ppc = "done")
            => Has(plog, "throw")

----------------------------------------------------------------------------
(* C17: after its comparison the Verifier calls send exactly once, with the *)
(* verdict text it chose, before it closes; it never closes before that     *)
(* send and never sends after the close.                                    *)
C17_VerdictBeforeClose ==
    \A c \in DOMAIN vlog :
        vlog[c] = "close" =>
            /\ \E v \in 1..(c - 1) :
                /\ vlog[v] = "verify"
                /\ Cardinality({s \in (v + 1)..(c - 1) : vlog[s] = "send"}) = 1
            /\ \A s \in (c + 1)..Len(vlog) : vlog[s] # "send"
            /\ vSent[Len(vSent)] = response
            /\ response \in {SuccessMsg, FailMsg}

\* The Verifier rejected, sent its verdict and closed.
C17_Witness ==
    /\ Has(vlog, "close")
    /\ Verdict = "Rejected"
    /\ vSent[Len(vSent)] = FailMsg

----------------------------------------------------------------------------
(* C18: whenever the Prover has sent a tag, it computed it over exactly the *)
(* challenge the Verifier generated, not over a fragment or nothing.        *)
C18_ChallengeBinding ==
    Len(pSent) >= 2 => (challenge # Empty /\ pchallenge = challenge)

----------------------------------------------------------------------------
(* C19: client2 against server2 never reaches a state with both sides       *)
(* waiting in a receive that cannot return while nothing is in flight or    *)
(* buffered in either direction, and both processes eventually return.      *)
BothBlocked ==
    /\ vpc \in {"read_hello", "read_digest"}
    /\ ppc \in {"read_challenge", "read_response"}
    /\ ~CanRead(c2s_buf, c2s_wire, pOpen)
    /\ ~CanRead(s2c_buf, s2c_wire, vOpen)
    /\ c2s_wire = Empty /\ s2c_wire = Empty

C19_DeadlockFree == [](~BothBlocked) /\ <>RunEnded

\* Both returned in a run in which TCP split a message.
C19_Witness == RunEnded /\ splits > 0

----------------------------------------------------------------------------
(* C14: when the peer's first message is longer than the largest message    *)
(* the receiver takes (the 1024 bytes of read_message's buffer), the        *)
(* Verifier's receive hands no byte of it to the Session, which goes to     *)
(* Error: no challenge is generated and nothing further happens.            *)
C14_OversizedRejected ==
    (Len(pSent) >= 1 /\ Len(pSent[1]) > BufSize /\ Count(vlog, "read") >= 1)
        => /\ hello = Empty
           /\ ~Has(vlog, "generate")
           /\ vpc = "done" => Verdict = "Error"

----------------------------------------------------------------------------
(* C15: for a candidate tag of the expected length, the comparison looks at *)
(* the same number of bytes wherever the first differing byte is: at all    *)
(* of them, as it does when only the last byte differs.                     *)
C15_ConstantTimeCompare ==
    (Has(vlog, "verify") /\ Len(client_digest) = Len(expected_digest))
        => compare_steps(client_digest, expected_digest) = Len(expected_digest)

----------------------------------------------------------------------------
(* C20: in server.cpp handle_client the response is the success text        *)
(* exactly when the received username is "admin" and the received password  *)
(* is "pass123"; every pass through the check sends exactly one of the two  *)
(* responses, nothing of the kind is sent before it, and the close of the   *)
(* client connection follows that send.                                     *)
PlainResponses == {PlainSuccessMsg, FailMsg}

ResponsesSent == Cardinality({i \in DOMAIN vSent : vSent[i] \in PlainResponses})

PlainNeverStuck == RunEnded \/ ENABLED PlainNext

====
